---- MODULE Spec2Model ----
(***************************************************************************)
(* StrokeEngine (src/src/StrokeEngine.cpp): the engine's member variables, *)
(* the caller's public operations, the two FreeRTOS background tasks       *)
(* (_homingProcedure, _stroking) and the FastAccelStepper servo as seen at *)
(* its interface.                                                          *)
(*                                                                         *)
(* Caller operations are one step each, except disable()/safeState(),      *)
(* whose shared writes are separate steps so that the tasks can run        *)
(* between them.  A task takes one step per loop iteration or per block    *)
(* between two suspension points.                                          *)
(***************************************************************************)
EXTENDS Integers, Sequences, FiniteSets, TLC

\* ------------------------------------------------------------------ bounds

\* patternTableSize (pattern.h, not part of the sources): patterns 0..PatternCount-1
PatternCount == 2
\* the stroking loop increments _index without limit; the model stops at MaxIndex
MaxIndex == 1
\* xTaskCreate is called without limit; the model holds this many tasks in all
MaxTasks == 2

\* ------------------------------------------------------- program constants

\* the numerator of the speed conversion, 1000000.0 / getCurrentSpeedInUs()
MicrosPerSecond == 1000000
\* the divisor of the reduced acceleration, _maxStepAcceleration / 10
SafeAccelDivisor == 10
\* the largest and the smallest int (32 bit)
IntMax == 2147483647
IntMin == -IntMax - 1

LOW == 0
HIGH == 1
\* the pin the homing procedure reads, and another input pin
SERVO_ENDSTOP == "SERVO_ENDSTOP"
Pins == {SERVO_ENDSTOP, "OTHER_PIN"}

SERVO_DISABLED == "DISABLED"
SERVO_READY == "READY"
SERVO_RUNNING == "RUNNING"
SERVO_ERROR == "ERROR"
ServoState == {SERVO_DISABLED, SERVO_READY, SERVO_RUNNING, SERVO_ERROR}

\* ------------------------------------------------------------ arithmetic

Abs(x) == IF x < 0 THEN -x ELSE x

\* a constrain() without its lower limit
constrain_NoLow(amt, low, high) == IF amt > high THEN high ELSE amt

\* Arduino's constrain(amt, low, high) macro
constrain(amt, low, high) == IF amt < low THEN low ELSE IF amt > high THEN high ELSE amt

\* Arduino's max(a, b) macro
max(a, b) == IF a > b THEN a ELSE b

\* the C++ conversion int(num / den): truncation toward zero
Trunc(num, den) ==
    IF (num >= 0) = (den > 0) THEN Abs(num) \div Abs(den) ELSE -(Abs(num) \div Abs(den))

\* int(num / den + 0.5), den # 0
IntOfPlusHalf(num, den) == Trunc(2 * num + den, 2 * den)

\* sq(x) = x * x leaves the int range (signed overflow: undefined behaviour)
SqOverflows(x) == x > 46340 \/ x < -46340

\* what a conversion to int of an infinity or a NaN can yield (undefined behaviour):
\* saturation, the "integer indefinite" value, or zero
UBInts == {IntMin, 0, IntMax}

\* ------------------------------------------------------------ geometry

\* the machineGeometry and motorProperties handed to begin()
Machines ==
    { [physicalTravel |-> 7, keepoutBoundary |-> 1, stepsPerMillimeter |-> 1,
       maxRPM |-> 60, stepsPerRevolution |-> 4, maxAcceleration |-> 5] }

\* begin(): the derived limits; int(0.5 + x) of a non-negative x
MaxStepOf(m) ==
    IntOfPlusHalf((m.physicalTravel - 2 * m.keepoutBoundary) * m.stepsPerMillimeter, 1)
MaxStepPerSecondOf(m) == IntOfPlusHalf(m.maxRPM * m.stepsPerRevolution, 60)
MaxStepAccelerationOf(m) == IntOfPlusHalf(m.maxAcceleration * m.stepsPerRevolution, 1)

VARIABLES
    machine,                \* *_physics and *_motor
    _minStep, _maxStep, _maxStepPerSecond, _maxStepAcceleration,
    _state, _isHomed, _patternIndex, _index,
    _depth, _stroke, _timeOfStroke, _sensation,
    _homeingPin, _homeingActiveLow, _homeingSpeed, _callBackHomeing,
    homingTask,             \* the homing tasks alive, and the one _taskHomingHandle names
    strokingTask,           \* the stroking tasks alive, and the one _taskStrokingHandle names
    patternTable,           \* each pattern's injected parameters
    servoEnabled,           \* the servo's outputs
    servoRunning,           \* servo->isRunning()
    drive,                  \* the servo calls of the latest step that made any (drive.on:
                            \* whether the behaviour records them)
    callback,               \* the latest argument of the homing callback
    pc,                     \* the caller's position
    ret                     \* what the latest bool operation returned: "true", "false"

limitVars == <<machine, _minStep, _maxStep, _maxStepPerSecond, _maxStepAcceleration>>
settingVars == <<_depth, _stroke, _timeOfStroke, _sensation>>
homingCfgVars == <<_homeingPin, _homeingActiveLow, _homeingSpeed, _callBackHomeing>>
vars == <<limitVars, _state, _isHomed, _patternIndex, _index, settingVars, homingCfgVars,
          homingTask, strokingTask, patternTable, servoEnabled, servoRunning, drive,
          callback, pc, ret>>

\* ------------------------------------------------------------ values

\* a motionParameter
Motion(speed, acceleration, position) ==
    [speed |-> speed, acceleration |-> acceleration, position |-> position]
NoMotion == Motion(0, 0, 0)

\* the four parameters a Pattern holds (time of stroke in milliseconds)
Parameters(timeOfStroke, depth, stroke, sensation) ==
    [timeOfStroke |-> timeOfStroke, depth |-> depth, stroke |-> stroke,
     sensation |-> sensation]
\* a Pattern nothing was injected into yet
NoParameters == Parameters(0, 0, 0, 0)

\* the engine's current settings, as setPattern() and startMotion() inject them
Settings == Parameters(_timeOfStroke, _depth, _stroke, _sensation)

\* one call of a servo method: by whom, and its argument (0 when it takes none)
Cmd(op, arg, via) == [op |-> op, arg |-> arg, via |-> via]

\* the locals of the stroking cycle that made the latest servo calls
Cycle(currentSpeed, distanceToCrash, requested, minimumDeceleration) ==
    [valid |-> TRUE, currentSpeed |-> currentSpeed, distanceToCrash |-> distanceToCrash,
     requested |-> requested, minimumDeceleration |-> minimumDeceleration]
NoCycle == [valid |-> FALSE, currentSpeed |-> 0, distanceToCrash |-> 0, requested |-> 0,
            minimumDeceleration |-> 0]

NoDrive(on) == [on |-> on, cmds |-> <<>>, motion |-> NoMotion, cycle |-> NoCycle]

\* the caller is in no operation (Idle), in none and a disable() called in another state
\* than ERROR was the latest one (Disabled), or in function fn before the line
Idle == [fn |-> "idle", line |-> 0]
Disabled == [fn |-> "idle", line |-> 377]
At(fn, line) == [fn |-> fn, line |-> line]
CallerIdle == pc.fn = "idle"

\* ------------------------------------------------------------ tasks

\* The tasks of one kind: the position of the task the handle names ("none": the handle is
\* NULL) and how many other tasks are at each position.  Tasks that the handle does not
\* name differ by their positions only.
\* a homing task past its polling loop is at "found" when it left the loop by the break,
\* at "missed" when the move ended
\* and, where its exit path is followed statement by statement, at "failing" or
\* "succeeding" once it has read _isHomed, and at "notify" once it has written _state
HomingPositions ==
    {"start", "backoff", "poll", "found", "missed", "failing", "succeeding", "notify"}
StrokingPositions == {"check", "cycle"}

NoTasks(positions) == [handle |-> "none", other |-> [p \in positions |-> 0]]

RECURSIVE Others(_, _)
Others(other, positions) ==
    IF positions = {} THEN 0
    ELSE LET p == CHOOSE q \in positions : TRUE
         IN  other[p] + Others(other, positions \ {p})

\* the number of tasks alive
Alive(tasks) ==
    (IF tasks.handle = "none" THEN 0 ELSE 1) + Others(tasks.other, DOMAIN tasks.other)

\* the handle no longer names its task: the task lives on among the others
Unnamed(tasks) ==
    IF tasks.handle = "none" THEN tasks.other
    ELSE [tasks.other EXCEPT ![tasks.handle] = @ + 1]

\* xTaskCreate(..., &handle): a new task at position p, and the handle names it
xTaskCreate(tasks, p) == [handle |-> p, other |-> Unnamed(tasks)]

\* who is "handle" (the task the handle names) or "other": a task of that sort is at p
TaskAt(tasks, who, p) ==
    IF who = "handle" THEN tasks.handle = p ELSE tasks.other[p] > 0

\* that task goes on to position q
Goto(tasks, who, p, q) ==
    IF who = "handle" THEN [tasks EXCEPT !.handle = q]
    ELSE [tasks EXCEPT !.other = [@ EXCEPT ![p] = @ - 1, ![q] = @ + 1]]

\* that task ends: handle = NULL; vTaskDelete(NULL)
EndSelf(tasks, who, p) ==
    IF who = "handle" THEN [tasks EXCEPT !.handle = "none"]
    ELSE [handle |-> "none", other |-> [Unnamed(tasks) EXCEPT ![p] = @ - 1]]

\* if (handle != NULL) { vTaskDelete(handle); handle = NULL; }
DeleteNamed(tasks) == [tasks EXCEPT !.handle = "none"]

Who == {"handle", "other"}

\* ------------------------------------------------------------ begin()

\* _stroke = 1/3 * _maxStep: the quotient of the ints 1 and 3, times _maxStep
DefaultStroke(m) == (1 \div 3) * MaxStepOf(m)

\* the state begin(physics, motor) leaves
Begin(m) ==
    /\ machine = m
    /\ _minStep = 0
    /\ _maxStep = MaxStepOf(m)
    /\ _maxStepPerSecond = MaxStepPerSecondOf(m)
    /\ _maxStepAcceleration = MaxStepAccelerationOf(m)
    /\ _state = SERVO_DISABLED
    /\ _isHomed = FALSE
    /\ _patternIndex = 0
    /\ _index = 0
    /\ _depth = MaxStepOf(m)
    /\ _stroke = DefaultStroke(m)
    /\ _timeOfStroke = 1000
    /\ _sensation = 0
    /\ servoEnabled = FALSE

\* begin() on a fresh engine; on: whether the behaviour records the servo calls
InitWith(on) ==
    /\ \E m \in Machines : Begin(m)
    /\ _homeingPin = SERVO_ENDSTOP
    /\ _homeingActiveLow = 1
    /\ _homeingSpeed = 0
    /\ _callBackHomeing = FALSE
    /\ homingTask = NoTasks(HomingPositions)
    /\ strokingTask = NoTasks(StrokingPositions)
    /\ patternTable = [i \in 0..(PatternCount - 1) |-> NoParameters]
    /\ servoRunning = FALSE
    /\ drive = NoDrive(on)
    /\ callback = "none"
    /\ pc = Idle
    /\ ret = "none"

\* ------------------------------------------------ the servo and the patterns

\* _applyMotionProfile(motion): the three servo calls, in their order
_applyMotionProfile(motion) ==
    << Cmd("setSpeedInHz", constrain(motion.speed, 1, _maxStepPerSecond),
           "_applyMotionProfile"),
       Cmd("setAcceleration", constrain(motion.acceleration, 1, _maxStepAcceleration),
           "_applyMotionProfile"),
       Cmd("moveTo", constrain(motion.position, _minStep, _maxStep),
           "_applyMotionProfile") >>

\* "stop servo motor as fast as legaly allowed", in startMotion() and stopMotion()
StopCmds(via) ==
    << Cmd("setAcceleration", _maxStepAcceleration, via),
       Cmd("applySpeedAcceleration", 0, via),
       Cmd("stopMove", 0, via) >>

\* a stopMotion() that sets READY whatever the state
StopMotionState_Always == SERVO_READY

\* the servo calls stopMotion() makes, and the state it leaves
StopMotionCmds == IF _state = SERVO_RUNNING THEN StopCmds("stopMotion") ELSE <<>>
StopMotionState == IF _state = SERVO_RUNNING THEN SERVO_READY ELSE _state

\* the latest servo calls after a step that made cmds (none: unchanged), in a behaviour
\* that records them
Drive(cmds, motion, cyc) ==
    IF drive.on /\ cmds # <<>>
    THEN [on |-> TRUE, cmds |-> cmds, motion |-> motion, cycle |-> cyc]
    ELSE drive

\* the feedrate speed * _motor->stepsPerMillimeter
Feedrate(speed) == speed * machine.stepsPerMillimeter

\* safe moves at the full acceleration
SafeAcceleration_Full == _maxStepAcceleration

\* the reduced acceleration of the safe moves, _maxStepAcceleration / 10
SafeAcceleration == _maxStepAcceleration \div SafeAccelDivisor

\* patternTable[i]->set...(settings): the tables that can result.  For an i outside the
\* table the writes go through a pointer read past the array: they may land nowhere in
\* the table, or on any of its patterns
Inject(i, settings) ==
    IF i \in DOMAIN patternTable
    THEN {[patternTable EXCEPT ![i] = settings]}
    ELSE {patternTable} \cup {[patternTable EXCEPT ![j] = settings] : j \in DOMAIN patternTable}

\* patternTable[i]->set<Field>(value), one of a Pattern's four setters, likewise
InjectOne(i, field, value) ==
    IF i \in DOMAIN patternTable
    THEN {[patternTable EXCEPT ![i][field] = value]}
    ELSE {patternTable}
           \cup {[patternTable EXCEPT ![j][field] = value] : j \in DOMAIN patternTable}

\* ------------------------------------------------------------ the caller

\* startMotion() that goes on from RUNNING as well
startMotionAllowed_FromRunning == _state \in {SERVO_READY, SERVO_RUNNING}

\* startMotion() goes on only from READY
startMotionAllowed == _state = SERVO_READY

startMotion ==
    /\ CallerIdle
    /\ pc' = Idle
    /\ IF ~startMotionAllowed
       THEN /\ ret' = "false"
            /\ UNCHANGED <<_state, _index, patternTable, strokingTask, drive>>
       ELSE /\ Alive(homingTask) + Alive(strokingTask) < MaxTasks
            /\ drive' = Drive(IF servoRunning THEN StopCmds("startMotion") ELSE <<>>,
                              NoMotion, NoCycle)
            /\ _state' = SERVO_RUNNING
            /\ _index' = -1
            /\ patternTable' \in Inject(_patternIndex, Settings)
            /\ strokingTask' = xTaskCreate(strokingTask, "check")
            /\ ret' = "true"
    /\ UNCHANGED <<limitVars, _isHomed, _patternIndex, settingVars, homingCfgVars,
                   homingTask, servoEnabled, servoRunning, callback>>

stopMotion ==
    /\ CallerIdle
    /\ pc' = Idle
    /\ drive' = Drive(StopMotionCmds, NoMotion, NoCycle)
    /\ _state' = StopMotionState
    /\ UNCHANGED <<limitVars, _isHomed, _patternIndex, _index, settingVars, homingCfgVars,
                   homingTask, strokingTask, patternTable, servoEnabled, servoRunning,
                   callback, ret>>

\* both overloads: withCallBack is the one that stores callBackHoming first
enableAndHome(pin, activeLow, speed, withCallBack) ==
    /\ CallerIdle
    /\ pc' = Idle
    /\ Alive(homingTask) + Alive(strokingTask) < MaxTasks
    /\ _callBackHomeing' = (withCallBack \/ _callBackHomeing)
    /\ _homeingPin' = pin
    /\ _homeingActiveLow' = activeLow
    /\ _homeingSpeed' = Feedrate(speed)
    /\ drive' = Drive(StopMotionCmds, NoMotion, NoCycle)
    /\ _state' = StopMotionState
    /\ servoEnabled' = TRUE
    /\ homingTask' = xTaskCreate(homingTask, "start")
    /\ UNCHANGED <<limitVars, _isHomed, _patternIndex, _index, settingVars, strokingTask,
                   patternTable, servoRunning, callback, ret>>

thisIsHome ==
    /\ CallerIdle
    /\ pc' = Idle
    /\ IF _state # SERVO_ERROR
       THEN /\ servoEnabled' = TRUE
            /\ drive' = Drive(<<Cmd("setCurrentPosition",
                                    -machine.stepsPerMillimeter * machine.keepoutBoundary,
                                    "thisIsHome")>>, NoMotion, NoCycle)
            /\ _isHomed' = TRUE
            /\ _state' = SERVO_READY
       ELSE UNCHANGED <<servoEnabled, drive, _isHomed, _state>>
    /\ UNCHANGED <<limitVars, _patternIndex, _index, settingVars, homingCfgVars, homingTask,
                   strokingTask, patternTable, servoRunning, callback, ret>>

\* moveToMax(speed) and moveToMin(speed): position is the target of the one called
moveToLimit(speed, position) ==
    /\ CallerIdle
    /\ pc' = Idle
    /\ IF _isHomed
       THEN LET currentMotion == Motion(Feedrate(speed), SafeAcceleration, position)
            IN  /\ drive' = Drive(StopMotionCmds \o _applyMotionProfile(currentMotion),
                                  currentMotion, NoCycle)
                /\ servoRunning' = TRUE
                /\ _state' = SERVO_READY
                /\ ret' = "true"
       ELSE /\ ret' = "false"
            /\ UNCHANGED <<drive, servoRunning, _state>>
    /\ UNCHANGED <<limitVars, _isHomed, _patternIndex, _index, settingVars, homingCfgVars,
                   homingTask, strokingTask, patternTable, servoEnabled, callback>>

moveToMax(speed) == moveToLimit(speed, _maxStep)
moveToMin(speed) == moveToLimit(speed, _minStep)

\* target is what patternTable[_patternIndex]->nextTarget(_index) returns
applyNewSettingsNow(target) ==
    /\ CallerIdle
    /\ pc' = Idle
    /\ IF _state = SERVO_RUNNING
       THEN /\ drive' = Drive(_applyMotionProfile(target), target, NoCycle)
            /\ servoRunning' = TRUE
            /\ ret' = "true"
       ELSE /\ ret' = "false"
            /\ UNCHANGED <<drive, servoRunning>>
    /\ UNCHANGED <<limitVars, _state, _isHomed, _patternIndex, _index, settingVars,
                   homingCfgVars, homingTask, strokingTask, patternTable, servoEnabled,
                   callback>>

\* disable(), and the disable() that safeState() calls: fn is the one the caller called
\* ("disable in ERROR": disable(), called in ERROR)
disableState(fn) ==
    /\ CallerIdle
    /\ _state' = SERVO_DISABLED
    /\ pc' = At(IF fn = "disable" /\ _state = SERVO_ERROR THEN "disable in ERROR" ELSE fn, 361)
    /\ UNCHANGED <<limitVars, _isHomed, _patternIndex, _index, settingVars, homingCfgVars,
                   homingTask, strokingTask, patternTable, servoEnabled, servoRunning,
                   drive, callback, ret>>

disableIsHomed ==
    /\ pc.line = 361
    /\ _isHomed' = FALSE
    /\ pc' = At(pc.fn, 364)
    /\ UNCHANGED <<limitVars, _state, _patternIndex, _index, settingVars, homingCfgVars,
                   homingTask, strokingTask, patternTable, servoEnabled, servoRunning,
                   drive, callback, ret>>

disableOutputs ==
    /\ pc.line = 364
    /\ servoEnabled' = FALSE
    /\ pc' = At(pc.fn, 367)
    /\ UNCHANGED <<limitVars, _state, _isHomed, _patternIndex, _index, settingVars,
                   homingCfgVars, homingTask, strokingTask, patternTable, servoRunning,
                   drive, callback, ret>>

\* "Delete homing Task": the task the handle names, when it names one
disableTask ==
    /\ pc.line = 367
    /\ homingTask' = DeleteNamed(homingTask)
    /\ pc' = IF pc.fn = "safeState" THEN At("safeState", 386)
             ELSE IF pc.fn = "disable" THEN Disabled ELSE Idle
    /\ UNCHANGED <<limitVars, _state, _isHomed, _patternIndex, _index, settingVars,
                   homingCfgVars, strokingTask, patternTable, servoEnabled, servoRunning,
                   drive, callback, ret>>

disable == disableState("disable")

safeState == disableState("safeState")

\* "Set error state"
safeStateError ==
    /\ pc = At("safeState", 386)
    /\ _state' = SERVO_ERROR
    /\ pc' = Idle
    /\ UNCHANGED <<limitVars, _isHomed, _patternIndex, _index, settingVars, homingCfgVars,
                   homingTask, strokingTask, patternTable, servoEnabled, servoRunning,
                   drive, callback, ret>>

\* 60.0 / speed in milliseconds, constrained "between 10ms and 120 seconds"; a speed of 0
\* gives an infinite quotient, which the constrain() takes to the upper limit.  For a
\* speed that divides 60000 the quotient is a whole number of milliseconds
TimeOfStroke(speed) ==
    IF speed = 0 THEN 120000 ELSE constrain(Trunc(60000, speed), 10, 120000)

\* one of the four setters: member is the variable it writes, value what it stores
setter(member, field, value) ==
    /\ CallerIdle
    /\ pc' = Idle
    /\ member' = value
    /\ patternTable' \in InjectOne(_patternIndex, field, value)
    /\ UNCHANGED <<limitVars, _state, _isHomed, _patternIndex, _index, homingCfgVars,
                   homingTask, strokingTask, servoEnabled, servoRunning, drive, callback,
                   ret>>

\* speed in strokes per minute
setSpeed(speed) ==
    /\ setter(_timeOfStroke, "timeOfStroke", TimeOfStroke(speed))
    /\ UNCHANGED <<_depth, _stroke, _sensation>>

\* depth in whole mm
setDepth(depth) ==
    /\ setter(_depth, "depth", constrain(depth * machine.stepsPerMillimeter, _minStep, _maxStep))
    /\ UNCHANGED <<_timeOfStroke, _stroke, _sensation>>

\* stroke in whole mm
setStroke(stroke) ==
    /\ setter(_stroke, "stroke",
              constrain(stroke * machine.stepsPerMillimeter, _minStep, _maxStep))
    /\ UNCHANGED <<_timeOfStroke, _depth, _sensation>>

setSensation(sensation) ==
    /\ setter(_sensation, "sensation", constrain(sensation, -100, 100))
    /\ UNCHANGED <<_timeOfStroke, _depth, _stroke>>

\* a < b with the int a converted to the unsigned type of b, as the usual arithmetic
\* conversions of the comparison do: a negative a becomes a value of 2^31 or more, above
\* every b that is an int
UnsignedLess(a, b) == a >= 0 /\ a < b

\* a range check that compares as signed ints
setPatternInRange_Signed(patternIndex) == patternIndex < PatternCount

\* "Check wether pattern Index is in range": patternIndex < patternTableSize
setPatternInRange(patternIndex) == UnsignedLess(patternIndex, PatternCount)

\* setPattern(), the whole call (exact where no task runs in between): "Inject current
\* motion parameters into new pattern", "Reset index counter"
setPattern(patternIndex) ==
    /\ CallerIdle
    /\ pc' = Idle
    /\ IF setPatternInRange(patternIndex)
       THEN /\ _patternIndex' = patternIndex
            /\ patternTable' \in Inject(patternIndex, Settings)
            /\ _index' = 0
            /\ ret' = "true"
       ELSE /\ ret' = "false"
            /\ UNCHANGED <<_patternIndex, patternTable, _index>>
    /\ UNCHANGED <<limitVars, _state, _isHomed, settingVars, homingCfgVars, homingTask,
                   strokingTask, servoEnabled, servoRunning, drive, callback>>

\* setPattern() up to the write of _patternIndex, where the stroking task can run before
\* the injections
setPatternSelect(patternIndex) ==
    /\ CallerIdle
    /\ IF setPatternInRange(patternIndex)
       THEN /\ _patternIndex' = patternIndex
            /\ pc' = At("setPattern", 112)
            /\ ret' = ret
       ELSE /\ ret' = "false"
            /\ pc' = Idle
            /\ UNCHANGED _patternIndex
    /\ UNCHANGED <<limitVars, _state, _isHomed, _index, settingVars, homingCfgVars,
                   homingTask, strokingTask, patternTable, servoEnabled, servoRunning,
                   drive, callback>>

\* the rest of setPattern(): the four injections, the reset of _index, return true
setPatternInject ==
    /\ pc = At("setPattern", 112)
    /\ patternTable' \in Inject(_patternIndex, Settings)
    /\ _index' = 0
    /\ pc' = Idle
    /\ ret' = "true"
    /\ UNCHANGED <<limitVars, _state, _isHomed, _patternIndex, settingVars, homingCfgVars,
                   homingTask, strokingTask, servoEnabled, servoRunning, drive, callback>>

\* ------------------------------------------------------- _homingProcedure

\* digitalRead(SERVO_ENDSTOP) == !_homeingActiveLow
AtSwitchOnStart(level) == level = (IF _homeingActiveLow # 0 THEN LOW ELSE HIGH)

\* "Switch is active low": digitalRead(SERVO_ENDSTOP) == LOW
SwitchFound(level) == level = LOW

HomingCmd(op, arg) == Cmd(op, arg, "_homingProcedure")

\* the feedrate, and the first move: level is what the endstop pin reads
homingStart(who, level) ==
    /\ TaskAt(homingTask, who, "start")
    /\ LET feed == << HomingCmd("setSpeedInHz", _homeingSpeed),
                      HomingCmd("setAcceleration", SafeAcceleration) >>
       IN  IF AtSwitchOnStart(level)
           THEN /\ drive' = Drive(feed \o << HomingCmd("move",
                                   machine.stepsPerMillimeter * 2 * machine.keepoutBoundary) >>,
                                  NoMotion, NoCycle)
                /\ homingTask' = Goto(homingTask, who, "start", "backoff")
           ELSE /\ drive' = Drive(feed \o << HomingCmd("move",
                                   -machine.stepsPerMillimeter * machine.physicalTravel) >>,
                                  NoMotion, NoCycle)
                /\ homingTask' = Goto(homingTask, who, "start", "poll")
    /\ servoRunning' = TRUE
    /\ UNCHANGED <<limitVars, _state, _isHomed, _patternIndex, _index, settingVars,
                   homingCfgVars, strokingTask, patternTable, servoEnabled, callback, pc,
                   ret>>

\* the back-off move is complete: "move back towards endstop"
homingBackOff(who) ==
    /\ TaskAt(homingTask, who, "backoff")
    /\ ~servoRunning
    /\ drive' = Drive(<< HomingCmd("move",
                         -machine.stepsPerMillimeter * 4 * machine.keepoutBoundary) >>,
                      NoMotion, NoCycle)
    /\ servoRunning' = TRUE
    /\ homingTask' = Goto(homingTask, who, "backoff", "poll")
    /\ UNCHANGED <<limitVars, _state, _isHomed, _patternIndex, _index, settingVars,
                   homingCfgVars, strokingTask, patternTable, servoEnabled, callback, pc,
                   ret>>

\* one turn of "Poll homing switch" that leaves the loop: the switch is found, or the
\* servo runs no more
homingPoll(who, level) ==
    /\ TaskAt(homingTask, who, "poll")
    /\ IF servoRunning
       THEN /\ SwitchFound(level)
            /\ drive' = Drive(<< HomingCmd("forceStopAndNewPosition",
                                   -machine.stepsPerMillimeter * machine.keepoutBoundary),
                                 HomingCmd("moveTo", 0) >>, NoMotion, NoCycle)
            /\ _isHomed' = TRUE
            /\ homingTask' = Goto(homingTask, who, "poll", "found")
       ELSE /\ homingTask' = Goto(homingTask, who, "poll", "missed")
            /\ UNCHANGED <<drive, _isHomed>>
    /\ UNCHANGED <<limitVars, _state, _patternIndex, _index, settingVars, homingCfgVars,
                   strokingTask, patternTable, servoEnabled, servoRunning, callback, pc,
                   ret>>

\* homing has failed when _isHomed is not set
homingFailed == ~_isHomed

\* "disable Servo if homing has not found the homing switch", else "Set state to ready";
\* the notification callback; "delete one-time task".  p is "found" or "missed"
homingFinish(who, p) ==
    /\ TaskAt(homingTask, who, p)
    /\ IF homingFailed
       THEN servoEnabled' = FALSE /\ _state' = SERVO_DISABLED
       ELSE servoEnabled' = servoEnabled /\ _state' = SERVO_READY
    /\ callback' = IF _callBackHomeing THEN (IF _isHomed THEN "true" ELSE "false")
                   ELSE callback
    /\ homingTask' = EndSelf(homingTask, who, p)
    /\ UNCHANGED <<limitVars, _isHomed, _patternIndex, _index, settingVars, homingCfgVars,
                   strokingTask, patternTable, servoRunning, drive, pc, ret>>

\* The exit path statement by statement, for behaviours in which the caller runs between
\* its statements.  if (!_isHomed): p is "found" or "missed"
homingExitCheck(who, p) ==
    /\ TaskAt(homingTask, who, p)
    /\ homingTask' = Goto(homingTask, who, p, IF homingFailed THEN "failing" ELSE "succeeding")
    /\ UNCHANGED <<limitVars, _state, _isHomed, _patternIndex, _index, settingVars,
                   homingCfgVars, strokingTask, patternTable, servoEnabled, servoRunning,
                   drive, callback, pc, ret>>

\* servo->disableOutputs(); _state = SERVO_DISABLED;  or  _state = SERVO_READY;
homingExitState(who, p) ==
    /\ p \in {"failing", "succeeding"}
    /\ TaskAt(homingTask, who, p)
    /\ IF p = "failing"
       THEN servoEnabled' = FALSE /\ _state' = SERVO_DISABLED
       ELSE servoEnabled' = servoEnabled /\ _state' = SERVO_READY
    /\ homingTask' = Goto(homingTask, who, p, "notify")
    /\ UNCHANGED <<limitVars, _isHomed, _patternIndex, _index, settingVars, homingCfgVars,
                   strokingTask, patternTable, servoRunning, drive, callback, pc, ret>>

\* _callBackHomeing(_isHomed), when there is a callback; "delete one-time task"
homingNotify(who) ==
    /\ TaskAt(homingTask, who, "notify")
    /\ callback' = IF _callBackHomeing THEN (IF _isHomed THEN "true" ELSE "false")
                   ELSE callback
    /\ homingTask' = EndSelf(homingTask, who, "notify")
    /\ UNCHANGED <<limitVars, _state, _isHomed, _patternIndex, _index, settingVars,
                   homingCfgVars, strokingTask, patternTable, servoEnabled, servoRunning,
                   drive, pc, ret>>

\* ------------------------------------------------------------ _stroking

\* currentSpeed = int((1000000.0 / servo->getCurrentSpeedInUs()) + 0.5): the values it can
\* take.  A stopped servo reports 0 us: the quotient is infinite and its conversion to
\* int is undefined
CurrentSpeed(speedInUs) ==
    IF speedInUs = 0 THEN UBInts ELSE {IntOfPlusHalf(MicrosPerSecond, speedInUs)}

\* "Calculate distance to boundary in current motion direction"
DistanceToCrash(currentSpeed, position) ==
    IF currentSpeed > 0 THEN _maxStep - position ELSE position - _minStep

\* the divisor of the deceleration quotient, 2.0 * distanceToCrash
DecelerationDivisor(distanceToCrash) == 2 * distanceToCrash

\* minimumDeceleration = int(sq(currentSpeed) / (2.0 * distanceToCrash) + 0.5): the values
\* it can take.  With a divisor of 0 the quotient is infinite or NaN, and its conversion
\* to int is undefined, as is a sq() that overflows
MinimumDeceleration(currentSpeed, distanceToCrash) ==
    IF DecelerationDivisor(distanceToCrash) = 0 \/ SqOverflows(currentSpeed)
    THEN UBInts
    ELSE {IntOfPlusHalf(currentSpeed * currentSpeed, DecelerationDivisor(distanceToCrash))}

\* "Delete task, if not in RUNNING state"
strokingCheck(who) ==
    /\ TaskAt(strokingTask, who, "check")
    /\ strokingTask' = IF _state # SERVO_RUNNING
                       THEN EndSelf(strokingTask, who, "check")
                       ELSE Goto(strokingTask, who, "check", "cycle")
    /\ UNCHANGED <<limitVars, _state, _isHomed, _patternIndex, _index, settingVars,
                   homingCfgVars, homingTask, patternTable, servoEnabled, servoRunning,
                   drive, callback, pc, ret>>

\* the servo still runs: nothing but the 10 ms delay
strokingWait(who) ==
    /\ TaskAt(strokingTask, who, "cycle")
    /\ servoRunning
    /\ strokingTask' = Goto(strokingTask, who, "cycle", "check")
    /\ UNCHANGED <<limitVars, _state, _isHomed, _patternIndex, _index, settingVars,
                   homingCfgVars, homingTask, patternTable, servoEnabled, servoRunning,
                   drive, callback, pc, ret>>

\* "If motor has stopped issue moveTo command to next position": target is what the
\* pattern's nextTarget(_index) returns, speedInUs and position what the servo reports
strokingCycle(who, target, speedInUs, position) ==
    /\ TaskAt(strokingTask, who, "cycle")
    /\ ~servoRunning
    /\ _index < MaxIndex
    /\ _index' = _index + 1
    /\ \E currentSpeed \in CurrentSpeed(speedInUs) :
         LET distanceToCrash == DistanceToCrash(currentSpeed, position)
         IN  \E minimumDeceleration \in MinimumDeceleration(currentSpeed, distanceToCrash) :
               LET currentMotion ==
                       [target EXCEPT
                          !.acceleration = max(target.acceleration, minimumDeceleration)]
               IN  drive' = Drive(_applyMotionProfile(currentMotion), currentMotion,
                                  Cycle(currentSpeed, distanceToCrash, target.acceleration,
                                        minimumDeceleration))
    /\ servoRunning' = TRUE
    /\ strokingTask' = Goto(strokingTask, who, "cycle", "check")
    /\ UNCHANGED <<limitVars, _state, _isHomed, _patternIndex, settingVars, homingCfgVars,
                   homingTask, patternTable, servoEnabled, callback, pc, ret>>

\* ------------------------------------------------------------ the servo

\* the move in progress is complete
servoStops ==
    /\ servoRunning
    /\ servoRunning' = FALSE
    /\ UNCHANGED <<limitVars, _state, _isHomed, _patternIndex, _index, settingVars,
                   homingCfgVars, homingTask, strokingTask, patternTable, servoEnabled,
                   drive, callback, pc, ret>>

\* ------------------------------------------------------------ specifications

Levels == {LOW, HIGH}

\* The life cycle: every operation on the state machine and both tasks, with one value
\* for each thing the caller passes and the servo and the pattern report
Init == InitWith(FALSE)

Next ==
    \/ startMotion
    \/ stopMotion
    \/ enableAndHome(SERVO_ENDSTOP, 1, 5, TRUE)
    \/ thisIsHome
    \/ moveToMax(10)
    \/ moveToMin(10)
    \/ applyNewSettingsNow(Motion(2, 3, 4))
    \/ disable
    \/ safeState
    \/ disableIsHomed
    \/ disableOutputs
    \/ disableTask
    \/ safeStateError
    \/ \E who \in Who, level \in Levels : homingStart(who, level)
    \/ \E who \in Who : homingBackOff(who)
    \/ \E who \in Who, level \in Levels : homingPoll(who, level)
    \/ \E who \in Who : homingFinish(who, "found")
    \/ \E who \in Who : homingFinish(who, "missed")
    \/ \E who \in Who : strokingCheck(who)
    \/ \E who \in Who : strokingWait(who)
    \/ \E who \in Who : strokingCycle(who, Motion(2, 3, 4), MicrosPerSecond, 0)
    \/ servoStops

Spec == Init /\ [][Next]_vars

\* ------------------------------------------------------------ claims, life cycle

\* C1 (as claimed): once safeState() has set ERROR, every later step that is not part
\* of another safeState() call leaves the state ERROR and the servo outputs disabled.
C1_ErrorIsTerminal ==
    [][(_state = SERVO_ERROR /\ pc'.fn # "safeState")
         => (_state' = SERVO_ERROR /\ ~servoEnabled')]_vars

\* C2 (as claimed): from when a disable() called in another state than ERROR has
\* returned until the caller's next operation, the state is DISABLED, _isHomed is false
\* and the servo outputs are disabled.
C2_DisableLeavesDisabled ==
    pc = Disabled => (_state = SERVO_DISABLED /\ ~_isHomed /\ ~servoEnabled)

\* C3 (as claimed): a stroking task and a homing task are never alive together.
C3_TasksExclusive == ~(Alive(strokingTask) > 0 /\ Alive(homingTask) > 0)

\* C4: a startMotion() step from DISABLED, RUNNING or ERROR returns false and changes
\* neither the state nor the step index nor the tasks; from READY it returns true and
\* the state becomes RUNNING.
C4_StartMotionOnlyFromReady ==
    [][startMotion =>
         IF _state \in {SERVO_DISABLED, SERVO_RUNNING, SERVO_ERROR}
         THEN ret' = "false" /\ UNCHANGED <<_state, _index, strokingTask, homingTask>>
         ELSE _state = SERVO_READY /\ ret' = "true" /\ _state' = SERVO_RUNNING]_vars

\* C4's case: startMotion() has returned true, the state is RUNNING and the new stroking
\* task has not run yet.
C4_Witness ==
    /\ ret = "true"
    /\ _state = SERVO_RUNNING
    /\ _index = -1
    /\ strokingTask.handle = "check"

\* C5 (as claimed): a homing run whose move ended without the switch found finishes with
\* the outputs disabled, the state DISABLED, _isHomed false and the callback told false.
C5_MissedHomingFails ==
    [][\A who \in Who :
         homingFinish(who, "missed")
           => /\ _state' = SERVO_DISABLED
              /\ ~_isHomed'
              /\ ~servoEnabled'
              /\ (_callBackHomeing => callback' = "false")]_vars

\* ------------------------------------------------------------ homing, recorded

\* the speeds in mm/s the caller homes with: none, a legal one, the default, a high one
HomingSpeeds == {0, 3, 5, 9}

\* Homing with every pin, polarity and speed, in behaviours that record the servo calls
InitHoming == InitWith(TRUE)

NextHoming ==
    \/ \E pin \in Pins, activeLow \in {0, 1}, speed \in HomingSpeeds :
         enableAndHome(pin, activeLow, speed, FALSE)
    \/ thisIsHome
    \/ disable
    \/ disableIsHomed
    \/ disableOutputs
    \/ disableTask
    \/ \E who \in Who, level \in Levels : homingStart(who, level)
    \/ \E who \in Who : homingBackOff(who)
    \/ \E who \in Who, level \in Levels : homingPoll(who, level)
    \/ \E who \in Who : homingFinish(who, "found")
    \/ \E who \in Who : homingFinish(who, "missed")
    \/ servoStops

SpecHoming == InitHoming /\ [][NextHoming]_vars

\* C6 (as claimed): every speed, acceleration and position command the servo receives was
\* issued by _applyMotionProfile, every speed lies in [1, _maxStepPerSecond], every
\* acceleration in [1, _maxStepAcceleration] and every target in [_minStep, _maxStep].
C6_SingleChokePoint ==
    \A k \in DOMAIN drive.cmds :
        LET c == drive.cmds[k]
        IN  /\ c.op \in {"setSpeedInHz", "setAcceleration", "moveTo", "move"}
                 => c.via = "_applyMotionProfile"
            /\ c.op = "setSpeedInHz" => c.arg \in 1.._maxStepPerSecond
            /\ c.op = "setAcceleration" => c.arg \in 1.._maxStepAcceleration
            /\ c.op = "moveTo" => c.arg \in _minStep.._maxStep

\* ------------------------------------------------------------ motion, recorded

\* the speeds in mm/s the caller passes to moveToMax() and moveToMin()
MoveSpeeds == {-1, 0, 3, 9}

\* what a pattern's nextTarget() can return: each component negative, within its limits
\* and beyond them, and all of them zero
Targets ==
    { Motion(speed, acceleration, position) :
        speed \in {-1, 2, 9}, acceleration \in {-1, 3, 99}, position \in {-1, 3, 9} }
      \cup {NoMotion}

\* what nextTarget() returns to the stroking loop: an acceleration of none, a moderate
\* one and one beyond the limit
CycleTargets == {Motion(2, 0, 3), Motion(2, 3, 5), Motion(9, 99, -1)}

\* what servo->getCurrentSpeedInUs() reports: stopped, 3 steps/s, and 2 steps/s backwards
\* (a currentSpeed of int(-2.0 + 0.5) = -1)
SpeedsInUs == {0, 333333, -500000}

\* what servo->getCurrentPosition() reports
Positions == {0, 1, 5}

\* The moves of a homed engine with every such input, in behaviours that record the
\* servo calls
InitMotion == InitWith(TRUE)

NextMotion ==
    \/ thisIsHome
    \/ startMotion
    \/ stopMotion
    \/ \E speed \in MoveSpeeds : moveToMax(speed)
    \/ \E speed \in MoveSpeeds : moveToMin(speed)
    \/ \E target \in Targets : applyNewSettingsNow(target)
    \/ \E who \in Who : strokingCheck(who)
    \/ \E who \in Who : strokingWait(who)
    \/ \E who \in Who, target \in CycleTargets, speedInUs \in SpeedsInUs, position \in Positions :
         strokingCycle(who, target, speedInUs, position)
    \/ servoStops

SpecMotion == InitMotion /\ [][NextMotion]_vars

\* the servo calls of the latest step that _applyMotionProfile made
ByApplier(c) == c.via = "_applyMotionProfile"
Applied == SelectSeq(drive.cmds, ByApplier)

\* y is x clamped to [lo, hi]
IsClamped(x, lo, hi, y) ==
    /\ x < lo => y = lo
    /\ x > hi => y = hi
    /\ (lo <= x /\ x <= hi) => y = x

\* C7: whenever _applyMotionProfile has acted on a motion, the servo got exactly three
\* calls from it, in the order set-speed, set-acceleration, move-to, with the motion's
\* speed clamped to [1, _maxStepPerSecond], its acceleration clamped to
\* [1, _maxStepAcceleration] and its position clamped to [_minStep, _maxStep].
C7_ApplierClamps ==
    Applied # <<>> =>
        /\ Len(Applied) = 3
        /\ Applied[1].op = "setSpeedInHz"
        /\ IsClamped(drive.motion.speed, 1, _maxStepPerSecond, Applied[1].arg)
        /\ Applied[2].op = "setAcceleration"
        /\ IsClamped(drive.motion.acceleration, 1, _maxStepAcceleration, Applied[2].arg)
        /\ Applied[3].op = "moveTo"
        /\ IsClamped(drive.motion.position, _minStep, _maxStep, Applied[3].arg)

\* C7's case: the applier has acted on a motion with a negative speed, an acceleration
\* beyond the limit and a negative position.
C7_Witness ==
    /\ Len(Applied) = 3
    /\ drive.motion.speed < 0
    /\ drive.motion.acceleration > _maxStepAcceleration
    /\ drive.motion.position < _minStep

\* C8 (as claimed): after a stroking cycle with distanceToCrash > 0 and a current speed
\* whose square is an int, the acceleration the servo got is at least
\* ceil(currentSpeed^2 / (2 * distanceToCrash)).
C8_AtLeastMinimumDeceleration ==
    (/\ drive.cycle.valid
     /\ drive.cycle.distanceToCrash > 0
     /\ ~SqOverflows(drive.cycle.currentSpeed))
      => Applied[2].arg * 2 * drive.cycle.distanceToCrash
           >= drive.cycle.currentSpeed * drive.cycle.currentSpeed

\* C9 (as claimed): a stroking cycle with distanceToCrash = 0 divides by no zero, and the
\* acceleration the servo got from it is _maxStepAcceleration.
C9_MaximumAtTheBoundary ==
    (drive.cycle.valid /\ drive.cycle.distanceToCrash = 0)
      => /\ DecelerationDivisor(drive.cycle.distanceToCrash) # 0
         /\ Applied[2].arg = _maxStepAcceleration

\* ------------------------------------------------------------ settings

\* the indices the caller passes to setPattern(): negative, both patterns, and past them
PatternIndices == {-1, 0, 1, 2, 3}

\* The caller alone: the setters, with values within the limits and beyond them, and
\* the choice of the pattern, on an engine that starts and stops
InitSettings == InitWith(FALSE)

NextSettings ==
    \/ setSpeed(0)
    \/ setDepth(3)
    \/ setStroke(9)
    \/ setSensation(200)
    \/ \E patternIndex \in PatternIndices : setPattern(patternIndex)
    \/ thisIsHome
    \/ startMotion
    \/ stopMotion

SpecSettings == InitSettings /\ [][NextSettings]_vars

InitSafeMoves == InitWith(TRUE)

NextSafeMoves ==
    \/ thisIsHome
    \/ disable
    \/ disableIsHomed
    \/ disableOutputs
    \/ disableTask
    \/ startMotion
    \/ stopMotion
    \/ \E speed \in MoveSpeeds : moveToMax(speed)
    \/ \E speed \in MoveSpeeds : moveToMin(speed)
    \/ \E who \in Who : strokingCheck(who)
    \/ \E who \in Who : strokingWait(who)
    \/ \E who \in Who : strokingCycle(who, Motion(2, 3, 4), MicrosPerSecond, 0)
    \/ servoStops

SpecSafeMoves == InitSafeMoves /\ [][NextSafeMoves]_vars

\* what C11 asks of a moveToMax()/moveToMin() step towards position: not homed, it returns
\* false and changes neither the state nor the servo calls; homed, it stops a running
\* stroke first, hands the applier one motion with that position and the acceleration
\* _maxStepAcceleration / 10, the servo gets one moveTo there, the state is READY and it
\* returns true
SafeMoveAsClaimed(position) ==
    IF ~_isHomed
    THEN ret' = "false" /\ UNCHANGED <<_state, drive>>
    ELSE /\ ret' = "true"
         /\ _state' = SERVO_READY
         /\ Len(Applied') = 3
         /\ drive'.motion.position = position
         /\ drive'.motion.acceleration = _maxStepAcceleration \div 10
         /\ Applied'[3] = Cmd("moveTo", position, "_applyMotionProfile")
         /\ IF _state = SERVO_RUNNING
            THEN Len(drive'.cmds) = 6 /\ drive'.cmds[3].op = "stopMove"
            ELSE drive'.cmds = Applied'

\* C11: every moveToMax() step is as claimed with the target _maxStep, every moveToMin()
\* step with the target _minStep.
C11_SafeMoves ==
    [][\A speed \in MoveSpeeds :
         /\ moveToMax(speed) => SafeMoveAsClaimed(_maxStep)
         /\ moveToMin(speed) => SafeMoveAsClaimed(_minStep)]_vars

\* C11's case: a safe move to _maxStep has stopped a running stroke and returned true.
C11_Witness ==
    /\ ret = "true"
    /\ _state = SERVO_READY
    /\ Len(drive.cmds) = 6
    /\ drive.cmds[3].op = "stopMove"
    /\ drive.cmds[6] = Cmd("moveTo", _maxStep, "_applyMotionProfile")

\* ------------------------------------------------------------ begin()

\* the geometries begin() is called with: travels of 2 to 16 steps
BeginMachines ==
    { [physicalTravel |-> travel, keepoutBoundary |-> keepout, stepsPerMillimeter |-> perMm,
       maxRPM |-> 60, stepsPerRevolution |-> 4, maxAcceleration |-> 5] :
        travel \in {4, 7, 10}, keepout \in {1, 2}, perMm \in {1, 2} }

\* begin(physics, motor) on an engine in use: the members it writes, and the servo's
\* outputs disabled
begin(m) ==
    /\ CallerIdle
    /\ pc' = Idle
    /\ machine' = m
    /\ _minStep' = 0
    /\ _maxStep' = MaxStepOf(m)
    /\ _maxStepPerSecond' = MaxStepPerSecondOf(m)
    /\ _maxStepAcceleration' = MaxStepAccelerationOf(m)
    /\ _state' = SERVO_DISABLED
    /\ _isHomed' = FALSE
    /\ _patternIndex' = 0
    /\ _index' = 0
    /\ _depth' = MaxStepOf(m)
    /\ _stroke' = DefaultStroke(m)
    /\ _timeOfStroke' = 1000
    /\ _sensation' = 0
    /\ servoEnabled' = FALSE
    /\ UNCHANGED <<homingCfgVars, homingTask, strokingTask, patternTable, servoRunning,
                   drive, callback, ret>>

\* begin() with every geometry, and the setters and thisIsHome() in between
InitBegin == InitWith(FALSE)

NextBegin ==
    \/ \E m \in BeginMachines : begin(m)
    \/ setSpeed(60)
    \/ setDepth(3)
    \/ setStroke(9)
    \/ setSensation(200)
    \/ thisIsHome

SpecBegin == InitBegin /\ [][NextBegin]_vars

\* C12 (as claimed): right after begin() the state is DISABLED, _isHomed is false, the depth
\* is _maxStep, the stroke is a third of _maxStep (rounded either way), the time of a
\* stroke is 1.0 s and the sensation is 0.
C12_Defaults ==
    [][\A m \in BeginMachines :
         begin(m)
           => /\ _state' = SERVO_DISABLED
              /\ ~_isHomed'
              /\ _depth' = _maxStep'
              /\ 3 * _stroke' > _maxStep' - 3
              /\ 3 * _stroke' < _maxStep' + 3
              /\ _timeOfStroke' = 1000
              /\ _sensation' = 0]_vars

\* ------------------------------------------------------------ claims, tasks

\* C13 (as claimed): the stroking task runs a cycle (increments _index, asks the pattern
\* for a target, applies a motion) only in the state RUNNING.
C13_StrokingOnlyWhileRunning ==
    [][(\E who \in Who : strokingCycle(who, Motion(2, 3, 4), MicrosPerSecond, 0))
         => _state = SERVO_RUNNING]_vars

\* a step that takes the state from DISABLED to READY
DisabledToReady == _state = SERVO_DISABLED /\ _state' = SERVO_READY

C15_ReadyImpliesHomed ==
    _state \in {SERVO_READY, SERVO_RUNNING} => _isHomed

\* the tasks of one kind are at most one, and the handle names the one alive
OneTask(tasks) == Alive(tasks) <= 1 /\ (Alive(tasks) = 1 => tasks.handle # "none")

\* C16 (as claimed): at most one stroking task and at most one homing task are alive, and
\* each handle names the task that is alive.
C16_NoTaskDuplicated == OneTask(strokingTask) /\ OneTask(homingTask)

\* the level at which the configured switch is active
ActiveLevel == IF _homeingActiveLow # 0 THEN LOW ELSE HIGH

\* C17 (as claimed), for a homing pin configured to be the one the procedure reads: a
\* poll during the move sets _isHomed and forces the position only when the level read is
\* the active level of the configured polarity.
C17_SwitchAsConfigured ==
    [][\A who \in Who, level \in Levels :
         (homingPoll(who, level) /\ servoRunning /\ _homeingPin = SERVO_ENDSTOP)
           => level = ActiveLevel]_vars

\* ------------------------------------------------------------ claims, motion

\* the acceleration a is at least min(ceil(v^2 / (2 * d)), _maxStepAcceleration) for the
\* speed v and the distance d >= 0 (no finite a is enough at d = 0 or when v^2 is no int)
AtLeastCappedMinimum(a, v, d) ==
    \/ a >= _maxStepAcceleration
    \/ d > 0 /\ ~SqOverflows(v) /\ a * 2 * d >= v * v

\* C18 (as claimed): every step that applies a motion profile in the state RUNNING has
\* computed the crash-avoidance override from the servo's speed and distance, and the
\* acceleration the servo gets is at least min(minimumDeceleration, _maxStepAcceleration).
C18_OverrideWhileRunning ==
    [][(_state = SERVO_RUNNING /\ _state' = SERVO_RUNNING /\ drive' # drive
          /\ Applied' # <<>>)
         => /\ drive'.cycle.valid
            /\ AtLeastCappedMinimum(Applied'[2].arg, drive'.cycle.currentSpeed,
                                    drive'.cycle.distanceToCrash)]_vars

\* ------------------------------------------------------------ patterns

\* The choice of the pattern and two setters while the stroking task runs
InitPatterns == InitWith(FALSE)

NextPatterns ==
    \/ thisIsHome
    \/ startMotion
    \/ stopMotion
    \/ setDepth(3)
    \/ setSensation(50)
    \/ \E patternIndex \in PatternIndices : setPatternSelect(patternIndex)
    \/ setPatternInject
    \/ applyNewSettingsNow(Motion(2, 3, 4))
    \/ \E who \in Who : strokingCheck(who)
    \/ \E who \in Who : strokingWait(who)
    \/ \E who \in Who : strokingCycle(who, Motion(2, 3, 4), MicrosPerSecond, 0)
    \/ servoStops

SpecPatterns == InitPatterns /\ [][NextPatterns]_vars

\* a step that asks the active pattern for a target in the state RUNNING
TargetRequested ==
    /\ _state = SERVO_RUNNING
    /\ \/ \E who \in Who : strokingCycle(who, Motion(2, 3, 4), MicrosPerSecond, 0)
       \/ applyNewSettingsNow(Motion(2, 3, 4))

\* C19 (as claimed): whenever a target is requested from the active pattern in the state
\* RUNNING, that pattern holds the engine's time of stroke, depth, stroke and sensation.
C19_PatternHoldsSettings ==
    [][TargetRequested => patternTable[_patternIndex] = Settings]_vars

\* ------------------------------------------------------------ homing runs, fair

\* Homing runs with and without a callback, thisIsHome() and disable() beside them; the
\* exit path of _homingProcedure statement by statement
InitHomingRuns == InitWith(FALSE)

\* the step of a homing task at the place p
HomingStep(who, p) ==
    \/ p = "start" /\ \E level \in Levels : homingStart(who, level)
    \/ p = "backoff" /\ homingBackOff(who)
    \/ p = "poll" /\ \E level \in Levels : homingPoll(who, level)
    \/ p \in {"found", "missed"} /\ homingExitCheck(who, p)
    \/ p \in {"failing", "succeeding"} /\ homingExitState(who, p)
    \/ p = "notify" /\ homingNotify(who)

NextHomingRuns ==
    \/ \E withCallBack \in BOOLEAN : enableAndHome(SERVO_ENDSTOP, 1, 5, withCallBack)
    \/ thisIsHome
    \/ disable
    \/ disableIsHomed
    \/ disableOutputs
    \/ disableTask
    \/ \E who \in Who, p \in HomingPositions : HomingStep(who, p)
    \/ servoStops

\* the places where a homing task waits for the servo
HomingWaits == {"backoff", "poll"}

\* Each bounded move of the servo stops (servoStops).  Each homing task, of priority 20,
\* goes on when it can; where it waits for the servo, asleep for 20 ms or 100 ms between
\* two looks, it goes on when it can again and again
HomingRunsFairness ==
    /\ WF_vars(servoStops)
    /\ \A who \in Who, p \in HomingPositions \ HomingWaits : WF_vars(HomingStep(who, p))
    /\ \A who \in Who, p \in HomingWaits : SF_vars(HomingStep(who, p))

SpecHomingRuns == InitHomingRuns /\ [][NextHomingRuns]_vars /\ HomingRunsFairness

\* a call of enableAndHome() in these behaviours
HomingStarted == \E withCallBack \in BOOLEAN : enableAndHome(SERVO_ENDSTOP, 1, 5, withCallBack)

\* the task the handle names stays at no place of _homingProcedure for ever, and unless
\* homing is started again and again, finally no homing task is left
HomingTerminates ==
    /\ \A p \in HomingPositions : (homingTask.handle = p) ~> (homingTask.handle # p)
    /\ []<><<HomingStarted>>_vars \/ <>[](Alive(homingTask) = 0)

\* the state a homing task leaves as it ends
HomingOutcome ==
    /\ _callBackHomeing => callback' = (IF _isHomed' THEN "true" ELSE "false")
    /\ _state' = (IF _isHomed' THEN SERVO_READY ELSE SERVO_DISABLED)

\* C20 (as claimed): every homing task that disable() does not delete ends, under the
\* fairness above; as it ends with no disable() under way, the callback, if there is one,
\* has got the value _isHomed has then, and _state is READY if _isHomed is true and
\* DISABLED if not.
C20_HomingCompletes ==
    /\ HomingTerminates
    /\ [][\A who \in Who : (CallerIdle /\ homingNotify(who)) => HomingOutcome]_vars

====
